---- MODULE Spec2Model ----
(***************************************************************************)
(* The DFIR pipeline coordinator of frontend/app.py: the Flask handlers    *)
(* analyze_dfir, generate_report and status, the two worker processes      *)
(* run_dfir_analysis_worker and run_report_generation_worker, the          *)
(* manager-backed status dictionary they share, and the artifact file      *)
(* dfir_reports/dfir_analysis.json that hands the analysis to the report.  *)
(*                                                                         *)
(* Granularity.  Every call on the manager dictionary is one remote call   *)
(* served by the manager process, so one dictionary read or write is one   *)
(* step.  Flask serves requests on threads, so a handler is a sequence of  *)
(* such steps and two handlers interleave.  Code between two shared        *)
(* accesses is local and belongs to the step of the access that follows.   *)
(* The test `manager is None` and the assignment `manager = Manager()` are  *)
(* taken as one step, so the model has one manager and one dictionary.     *)
(***************************************************************************)
EXTENDS Integers, Sequences, FiniteSets, TLC

\* ------------------------------------------------------------------ bounds
MaxRequests == 2      \* start requests issued in one behaviour
MaxThreads == 2       \* Flask handler threads serving start requests at once
MaxKills == 1         \* worker processes that die from outside
MaxReads == 1         \* status polls in one behaviour
MaxFaults == 1        \* failures of the environment in one behaviour

\* ------------------------------------------------------------- JSON values
\* A document is what a file or a text holds once json.load / json.loads has
\* been tried on it: "missing" (no file), "text" (does not parse), "nonobject"
\* (parses to a list, string or number), "object" (parses to a dict, given as
\* its set of <<key, value>> pairs).
Doc(kind, txt, obj) == [kind |-> kind, txt |-> txt, obj |-> obj]
Missing == Doc("missing", "", {})
Text(t) == Doc("text", t, {})
NonObject(t) == Doc("nonobject", t, {})
Object(o) == Doc("object", "", o)

HasKey(o, k) == \E p \in o : p[1] = k
WithDefault(o, k, v) == IF HasKey(o, k) THEN o ELSE o \cup {<<k, v>>}
WithKey(o, k, v) == {p \in o : p[1] # k} \cup {<<k, v>>}

\* app.py 142 and 151, main.py 133 and 136: the shape test on a parsed file.
validate(d) ==
    IF d.kind = "object" /\ (HasKey(d.obj, "EXECUTIVE_SUMMARY") \/ HasKey(d.obj, "executive_summary"))
    THEN "Valid"
    ELSE IF d.kind = "object" /\ HasKey(d.obj, "analysis")
    THEN "ValidLegacy"
    ELSE "Invalid"

\* ---------------------------------------------------------- status record
Keys == {"running", "progress", "errors", "warnings", "current_step", "report_path", "dfir_analysis_ready"}

\* A field whose key is absent holds the default that status() passes to .get.
NoDict ==
    [exists |-> FALSE, keys |-> {}, running |-> FALSE, progress |-> "", errors |-> <<>>,
     warnings |-> <<>>, current_step |-> "", report_path |-> <<>>, dfir_analysis_ready |-> FALSE]

\* app.py 606-614 (ready = FALSE) and 698-706 (ready = TRUE).
FullDict(ready) == [NoDict EXCEPT !.exists = TRUE, !.keys = Keys, !.dfir_analysis_ready = ready]

\* app.py 682-684: manager.dict({'dfir_analysis_ready': False}).
PartialDict == [NoDict EXCEPT !.exists = TRUE, !.keys = {"dfir_analysis_ready"}]

\* The seven values a reader of the dictionary gets.
Fields(d) == <<d.running, d.progress, d.errors, d.warnings, d.current_step, d.report_path, d.dfir_analysis_ready>>

\* status_dict[k] = v
Put(d, k, v) == [d EXCEPT ![k] = v, !.keys = @ \cup {k}]
\* status_dict[k].append(v), guarded by `if k in status_dict`
AppendTo(d, k, v) == IF k \in d.keys THEN [d EXCEPT ![k] = Append(@, v)] ELSE d
\* status_dict[k][:] = []
Clear(d, k) == [d EXCEPT ![k] = <<>>]

\* ------------------------------------------------------------------- state
VARIABLES
    manager,                 \* app.py 547: the global `manager` is not None
    analysis_status_shared,  \* app.py 548: the manager dictionary (NoDict = None)
    analysis_process,        \* app.py 545: 0 = None, Unstarted, or a worker id
    report_process,          \* app.py 546: likewise
    proc,                    \* the worker processes, by id
    thread,                  \* the Flask threads serving start requests
    poll,                    \* the Flask thread serving /status
    artifact,                \* dfir_reports/dfir_analysis.json
    report_html,             \* dfir_reports/dfir_report.html
    report_copy,             \* dfir_reports/dfir_report_<slug>.html
    proxy_has_clear,         \* whether ListProxy has the attribute `clear` (Python >= 3.13)
    response,                \* the HTTP response the step just taken returned
    observed,                \* the status JSON the step just taken returned
    issued,                  \* start requests issued so far
    kills,                   \* workers killed so far
    reads,                   \* status polls started so far
    faults,                  \* failures of the environment so far
    seen,                    \* the values the dictionary took during the poll under way
    scope                    \* the bounds of this behaviour

vars == <<manager, analysis_status_shared, analysis_process, report_process, proc, thread, poll,
          artifact, report_html, report_copy, proxy_has_clear, response, observed, issued,
          kills, reads, faults, seen, scope>>

Threads == 1..MaxThreads
Procs == 1..MaxRequests
Unstarted == -1   \* a Process object whose start() failed: is_alive() is False

NoResponse == [route |-> "none", code |-> 0, msg |-> ""]
Response(route, code, msg) == [route |-> route, code |-> code, msg |-> msg]
NoSnapshot == [taken |-> FALSE, quiet |-> FALSE, calm |-> FALSE, whole |-> FALSE, status |-> NoDict]

IdleThread == [op |-> "idle", pc |-> "idle", title |-> <<>>]
IdlePoll == [pc |-> "idle", quiet |-> FALSE, calm |-> FALSE, copy |-> NoDict]
NoProc == [kind |-> "none", pc |-> "none", alive |-> FALSE, title |-> <<>>, out |-> Missing,
           ended |-> "", exc |-> "", calls |-> 0, log |-> <<>>]

\* Process.is_alive() on a handle
is_alive(h) == h > 0 /\ proc[h].alive
Spawned == {w \in Procs : proc[w].kind # "none"}
AliveProcs == {w \in Procs : proc[w].alive}
AliveOf(kind) == {w \in AliveProcs : proc[w].kind = kind}
Busy == {t \in Threads : thread[t].pc # "idle"}

\* A request goes to the lowest free thread; at most scope.threads are busy.
MayServe(t) ==
    /\ thread[t].pc = "idle"
    /\ \A u \in Threads : u < t => thread[u].pc # "idle"
    /\ Cardinality(Busy) < scope.threads
    /\ issued < scope.requests

\* History: every value the dictionary held from the first .get of a poll to its last.
Watch ==
    seen' = IF poll'.pc = "idle" THEN {}
            ELSE IF poll.pc = "idle" THEN {Fields(analysis_status_shared)}
            ELSE seen \cup {Fields(analysis_status_shared')}

\* What a step leaves alone.
Files == <<artifact, report_html, report_copy>>
Handles == <<analysis_process, report_process>>
Budget == <<proxy_has_clear, kills, reads, faults, scope>>
\* A step in which the environment fails (a start, a mkdir, an import or the
\* engine) spends one of scope.faults.
Fault(failed) ==
    /\ failed => faults < scope.faults
    /\ faults' = IF failed THEN faults + 1 ELSE faults
Fixed == <<proxy_has_clear, kills, reads, scope>>
NoReply == response' = NoResponse /\ observed' = NoSnapshot

Goto(t, pc) == thread' = [thread EXCEPT ![t].pc = pc]
Reply(t, route, code, msg) ==
    /\ thread' = [thread EXCEPT ![t] = IdleThread]
    /\ response' = Response(route, code, msg)
    /\ observed' = NoSnapshot

\* Process(target=..., args=(..., analysis_status_shared, ...)).start()
NewProc(kind, title) == [NoProc EXCEPT !.kind = kind, !.pc = "dirs", !.alive = TRUE, !.title = title]
NextId == Cardinality(Spawned) + 1

\* ------------------------------------------------------ analyze_dfir (579)
Bodies == {"none", "no_file_path", "no_such_file", "ok"}

\* app.py 584-600: the liveness check and the checks on the request.
analyze_dfir(t, body) ==
    /\ MayServe(t)
    /\ issued' = issued + 1
    /\ IF is_alive(analysis_process)
       THEN Reply(t, "analyze-dfir", 400, "DFIR analysis already running")
       ELSE IF body = "none"
       THEN Reply(t, "analyze-dfir", 400, "No data provided")
       ELSE IF body = "no_file_path"
       THEN Reply(t, "analyze-dfir", 400, "File path not provided")
       ELSE IF body = "no_such_file"
       THEN Reply(t, "analyze-dfir", 400, "File not found")
       ELSE thread' = [thread EXCEPT ![t] = [op |-> "analyze", pc |-> "a_manager", title |-> <<>>]] /\ NoReply
    /\ UNCHANGED <<manager, analysis_status_shared, Handles, proc, poll, Files, Budget>> /\ Watch

\* app.py 604-605: if manager is None: manager = multiprocessing.Manager()
analyze_manager(t) ==
    /\ thread[t].pc = "a_manager"
    /\ manager' = TRUE
    /\ Goto(t, IF manager THEN "a_running" ELSE "a_dict")
    /\ NoReply
    /\ UNCHANGED <<analysis_status_shared, Handles, proc, poll, Files, Budget, issued>> /\ Watch

\* app.py 606-614: analysis_status_shared = manager.dict({...})
analyze_dict(t) ==
    /\ thread[t].pc = "a_dict"
    /\ analysis_status_shared' = FullDict(FALSE)
    /\ Goto(t, "a_running")
    /\ NoReply
    /\ UNCHANGED <<manager, Handles, proc, poll, Files, Budget, issued>> /\ Watch

\* One statement of a reset block (app.py 619-627, 711-718): a subscript on None
\* or on a missing key raises, and the handler answers 500.
ResetStep(t, route, raises, next, d) ==
    /\ IF raises
       THEN Reply(t, route, 500, "Failed to reset status") /\ UNCHANGED analysis_status_shared
       ELSE analysis_status_shared' = d /\ Goto(t, next) /\ NoReply
    /\ UNCHANGED <<manager, Handles, proc, poll, Files, Budget, issued>> /\ Watch

\* app.py 620
analyze_running(t) ==
    /\ thread[t].pc = "a_running"
    /\ ResetStep(t, "analyze-dfir", ~analysis_status_shared.exists, "a_progress",
                 Put(analysis_status_shared, "running", TRUE))
\* app.py 621
analyze_progress(t) ==
    /\ thread[t].pc = "a_progress"
    /\ ResetStep(t, "analyze-dfir", FALSE, "a_errors",
                 Put(analysis_status_shared, "progress", "Starting DFIR analysis..."))
\* app.py 622
analyze_errors(t) ==
    /\ thread[t].pc = "a_errors"
    /\ ResetStep(t, "analyze-dfir", "errors" \notin analysis_status_shared.keys, "a_warnings",
                 Clear(analysis_status_shared, "errors"))
\* app.py 623
analyze_warnings(t) ==
    /\ thread[t].pc = "a_warnings"
    /\ ResetStep(t, "analyze-dfir", "warnings" \notin analysis_status_shared.keys, "a_step",
                 Clear(analysis_status_shared, "warnings"))
\* app.py 624
analyze_step(t) ==
    /\ thread[t].pc = "a_step"
    /\ ResetStep(t, "analyze-dfir", FALSE, "a_ready",
                 Put(analysis_status_shared, "current_step", "DFIR Analysis"))
\* app.py 625
analyze_ready(t) ==
    /\ thread[t].pc = "a_ready"
    /\ ResetStep(t, "analyze-dfir", FALSE, "a_spawn",
                 Put(analysis_status_shared, "dfir_analysis_ready", FALSE))

\* app.py 643-657: the Process is created and started; start() may fail.
analyze_spawn(t, started) ==
    /\ thread[t].pc = "a_spawn"
    /\ IF started
       THEN /\ proc' = [proc EXCEPT ![NextId] = NewProc("dfir", <<>>)]
            /\ analysis_process' = NextId
            /\ Reply(t, "analyze-dfir", 200, "DFIR analysis started")
       ELSE /\ proc' = proc
            /\ analysis_process' = Unstarted
            /\ Reply(t, "analyze-dfir", 500, "Failed to start DFIR analysis process")
    /\ Fault(~started)
    /\ UNCHANGED <<manager, analysis_status_shared, report_process, poll, Files, Fixed, issued>> /\ Watch

\* --------------------------------------------------- generate_report (664)
\* A title is its sequence of characters; app.py 678 gives the default.
DefaultTitle == <<"D", "F", "I", "R", " ", "A", "n", "a", "l", "y", "s", "i", "s", " ", "R", "e", "p", "o", "r", "t">>
Titles == {DefaultTitle}

\* app.py 669-678: the liveness check and the check on the request.
generate_report(t, body, title) ==
    /\ MayServe(t)
    /\ issued' = issued + 1
    /\ IF is_alive(report_process)
       THEN Reply(t, "generate-report", 400, "Report generation already running")
       ELSE IF body = "none"
       THEN Reply(t, "generate-report", 400, "No data provided")
       ELSE thread' = [thread EXCEPT ![t] = [op |-> "report", pc |-> "g_ready", title |-> title]] /\ NoReply
    /\ UNCHANGED <<manager, analysis_status_shared, Handles, proc, poll, Files, Budget>> /\ Watch

\* app.py 681-684: the dictionary this request goes on with.
ReadyDict == IF ~analysis_status_shared.exists /\ manager THEN PartialDict ELSE analysis_status_shared

\* app.py 680-690: "Check if DFIR analysis is ready".  An absent dictionary is
\* falsy, and so the file is looked for only when a dictionary exists whose
\* dfir_analysis_ready is not true.
generate_ready(t) ==
    /\ thread[t].pc = "g_ready"
    /\ analysis_status_shared' = ReadyDict
    /\ IF ReadyDict.exists /\ ~ReadyDict.dfir_analysis_ready /\ artifact.doc.kind = "missing"
       THEN Reply(t, "generate-report", 400, "DFIR analysis not found. Please run DFIR analysis first.")
       ELSE Goto(t, "g_manager") /\ NoReply
    /\ UNCHANGED <<manager, Handles, proc, poll, Files, Budget, issued>> /\ Watch

\* app.py 694-695
generate_manager(t) ==
    /\ thread[t].pc = "g_manager"
    /\ manager' = TRUE
    /\ Goto(t, "g_dict")
    /\ NoReply
    /\ UNCHANGED <<analysis_status_shared, Handles, proc, poll, Files, Budget, issued>> /\ Watch

\* app.py 697-706
generate_dict(t) ==
    /\ thread[t].pc = "g_dict"
    /\ analysis_status_shared' = IF analysis_status_shared.exists THEN analysis_status_shared ELSE FullDict(TRUE)
    /\ Goto(t, "g_running")
    /\ NoReply
    /\ UNCHANGED <<manager, Handles, proc, poll, Files, Budget, issued>> /\ Watch

\* app.py 712
generate_running(t) ==
    /\ thread[t].pc = "g_running"
    /\ ResetStep(t, "generate-report", ~analysis_status_shared.exists, "g_progress",
                 Put(analysis_status_shared, "running", TRUE))
\* app.py 713
generate_progress(t) ==
    /\ thread[t].pc = "g_progress"
    /\ ResetStep(t, "generate-report", FALSE, "g_errors",
                 Put(analysis_status_shared, "progress", "Starting report generation..."))
\* app.py 714
generate_errors(t) ==
    /\ thread[t].pc = "g_errors"
    /\ ResetStep(t, "generate-report", "errors" \notin analysis_status_shared.keys, "g_warnings",
                 Clear(analysis_status_shared, "errors"))
\* app.py 715
generate_warnings(t) ==
    /\ thread[t].pc = "g_warnings"
    /\ ResetStep(t, "generate-report", "warnings" \notin analysis_status_shared.keys, "g_step",
                 Clear(analysis_status_shared, "warnings"))
\* app.py 716
generate_step(t) ==
    /\ thread[t].pc = "g_step"
    /\ ResetStep(t, "generate-report", FALSE, "g_spawn",
                 Put(analysis_status_shared, "current_step", "Report Generation"))

\* app.py 732-747
generate_spawn(t, started) ==
    /\ thread[t].pc = "g_spawn"
    /\ IF started
       THEN /\ proc' = [proc EXCEPT ![NextId] = NewProc("report", thread[t].title)]
            /\ report_process' = NextId
            /\ Reply(t, "generate-report", 200, "Report generation started")
       ELSE /\ proc' = proc
            /\ report_process' = Unstarted
            /\ Reply(t, "generate-report", 500, "Failed to start report generation process")
    /\ Fault(~started)
    /\ UNCHANGED <<manager, analysis_status_shared, analysis_process, poll, Files, Fixed, issued>> /\ Watch

\* ------------------------------------------------------- worker processes
At(w, kind, pc) == proc[w].alive /\ proc[w].kind = kind /\ proc[w].pc = pc

\* One call of the worker on status_dict; log keeps what the worker sent.
bool(b) == IF b THEN "True" ELSE "False"
Move(w, next) == proc' = [proc EXCEPT ![w].pc = next]
Set(w, k, v, shown, next) ==
    /\ analysis_status_shared' = Put(analysis_status_shared, k, v)
    /\ proc' = [proc EXCEPT ![w].pc = next, ![w].log = Append(@, <<k, shown>>)]
Add(w, k, v, next) ==
    /\ analysis_status_shared' = AppendTo(analysis_status_shared, k, v)
    /\ proc' = [proc EXCEPT ![w].pc = next, ![w].log = Append(@, <<k, v>>)]
\* app.py 91-94, 278-281: emptied only if the list proxy has the attribute `clear`
Empty(w, k, next) ==
    /\ analysis_status_shared' =
           IF k \in analysis_status_shared.keys /\ proxy_has_clear
           THEN Clear(analysis_status_shared, k) ELSE analysis_status_shared
    /\ proc' = [proc EXCEPT ![w].pc = next,
                            ![w].log = IF proxy_has_clear THEN Append(@, <<k, "[]">>) ELSE @]

WorkerFrame == UNCHANGED <<manager, Handles, thread, poll, Fixed, issued>> /\ NoReply /\ Watch
StatusOnly == WorkerFrame /\ UNCHANGED <<Files, faults>>
Faulty(failed) == WorkerFrame /\ UNCHANGED Files /\ Fault(failed)

\* An exception leaves the try block for the handler at 214 / 381.
Raise(w, msg) == proc' = [proc EXCEPT ![w].pc = "exc_errors", ![w].ended = "raised", ![w].exc = msg]

\* Messages of exceptions raised inside a stage, by the words the handlers look for.
ExcMessages == {"connection refused", "request timed out", "context length exceeded",
                "timeout waiting for token"}
Mentions(msg, word) ==
    \/ word = "time" /\ msg \in {"request timed out", "timeout waiting for token"}
    \/ word = "timeout" /\ msg = "timeout waiting for token"
    \/ word = "token" /\ msg = "timeout waiting for token"
    \/ word = "context" /\ msg = "context length exceeded"

\* app.py 66-86, 253-273: mkdir of logs/ and dfir_reports/; chmod failures are ignored.
DirOutcomes == {"ok", "chmod_failed", "mkdir_failed"}
worker_dirs(w, outcome) ==
    /\ proc[w].alive /\ proc[w].pc = "dirs"
    /\ Move(w, IF outcome = "mkdir_failed" THEN "dir_errors" ELSE "running")
    /\ UNCHANGED analysis_status_shared
    /\ Faulty(outcome = "mkdir_failed")
\* app.py 81-83, 268-270
worker_dir_errors(w) ==
    /\ proc[w].alive /\ proc[w].pc = "dir_errors"
    /\ Add(w, "errors", "Error creating directories", "dir_progress")
    /\ StatusOnly
\* app.py 84, 271
worker_dir_progress(w) ==
    /\ proc[w].alive /\ proc[w].pc = "dir_progress"
    /\ Set(w, "progress", "Error: Error creating directories", "Error: Error creating directories", "dir_running")
    /\ StatusOnly
\* app.py 85-86, 272-273
worker_dir_running(w) ==
    /\ proc[w].alive /\ proc[w].pc = "dir_running"
    /\ Set(w, "running", FALSE, bool(FALSE), "exit")
    /\ StatusOnly

\* app.py 90, 277
worker_running(w) ==
    /\ proc[w].alive /\ proc[w].pc = "running"
    /\ Set(w, "running", TRUE, bool(TRUE), "clear_errors")
    /\ StatusOnly
\* app.py 91-92, 278-279
worker_clear_errors(w) ==
    /\ proc[w].alive /\ proc[w].pc = "clear_errors"
    /\ Empty(w, "errors", "clear_warnings")
    /\ StatusOnly
\* app.py 93-94, 280-281
worker_clear_warnings(w) ==
    /\ proc[w].alive /\ proc[w].pc = "clear_warnings"
    /\ Empty(w, "warnings", "progress")
    /\ StatusOnly

\* The process ends: the finally block, then interpreter exit.
worker_exit(w) ==
    /\ proc[w].alive /\ proc[w].pc = "exit"
    /\ proc' = [proc EXCEPT ![w] = [NoProc EXCEPT !.kind = proc[w].kind, !.pc = "exited"]]
    /\ UNCHANGED analysis_status_shared
    /\ StatusOnly

\* The process is killed from outside (SIGKILL, out of memory) at any point.
worker_killed(w) ==
    /\ proc[w].alive
    /\ kills < scope.kills
    /\ kills' = kills + 1
    /\ proc' = [proc EXCEPT ![w] = [NoProc EXCEPT !.kind = proc[w].kind, !.pc = "killed"]]
    /\ NoReply
    /\ UNCHANGED <<manager, analysis_status_shared, Handles, thread, poll, Files, proxy_has_clear, reads, faults, scope, issued>> /\ Watch

\* ------------------------------------ failure handlers of the two workers
Stage(w) == IF proc[w].kind = "dfir" THEN "DFIR analysis" ELSE "report generation"
TimeLimitWarning(w) ==
    IF proc[w].kind = "dfir" THEN "DFIR analysis exceeded the time limit."
    ELSE "Report generation exceeded the time limit."

\* A timeout handler that starts the engine call again: C22 must tell it from
\* the one below.
worker_timeout_retry(w) ==
    /\ proc[w].alive /\ proc[w].pc = "to_errors"
    /\ Move(w, "tool")
    /\ UNCHANGED analysis_status_shared
    /\ StatusOnly
\* app.py 204-207, 371-374
worker_timeout_errors(w) ==
    /\ proc[w].alive /\ proc[w].pc = "to_errors"
    /\ Add(w, "errors", "Timeout during " \o Stage(w), "to_warnings")
    /\ StatusOnly
\* A timeout handler that leaves the time-limit warning out: C6 must tell it
\* from the handler below.
worker_timeout_without_warning(w) ==
    /\ proc[w].alive /\ proc[w].pc = "to_warnings"
    /\ Move(w, "to_progress")
    /\ UNCHANGED analysis_status_shared
    /\ StatusOnly
\* app.py 208-209, 375-376
worker_timeout_warnings(w) ==
    /\ proc[w].alive /\ proc[w].pc = "to_warnings"
    /\ Add(w, "warnings", TimeLimitWarning(w), "to_progress")
    /\ StatusOnly
\* app.py 210, 377
worker_timeout_progress(w) ==
    /\ proc[w].alive /\ proc[w].pc = "to_progress"
    /\ Set(w, "progress", "Error: Timeout", "Error: Timeout", "to_step")
    /\ StatusOnly
\* app.py 211, 378
worker_timeout_step(w) ==
    /\ proc[w].alive /\ proc[w].pc = "to_step"
    /\ Set(w, "current_step", "Error", "Error", "to_running")
    /\ StatusOnly
\* A timeout handler that returns without clearing running: C21 must tell it
\* from the one below.
worker_timeout_stays_running(w) ==
    /\ proc[w].alive /\ proc[w].pc = "to_running"
    /\ Move(w, "exit")
    /\ UNCHANGED analysis_status_shared
    /\ StatusOnly
\* app.py 212, 379
worker_timeout_running(w) ==
    /\ proc[w].alive /\ proc[w].pc = "to_running"
    /\ Set(w, "running", FALSE, bool(FALSE), "exit")
    /\ StatusOnly

\* app.py 214-218, 381-385
worker_exception_errors(w) ==
    /\ proc[w].alive /\ proc[w].pc = "exc_errors"
    /\ Add(w, "errors", "Error during " \o Stage(w) \o ": " \o proc[w].exc, "exc_progress")
    /\ StatusOnly
\* app.py 219, 386
worker_exception_progress(w) ==
    /\ proc[w].alive /\ proc[w].pc = "exc_progress"
    /\ Set(w, "progress", "Error: " \o proc[w].exc, "Error: " \o proc[w].exc, "exc_step")
    /\ StatusOnly
\* app.py 220, 387
worker_exception_step(w) ==
    /\ proc[w].alive /\ proc[w].pc = "exc_step"
    /\ Set(w, "current_step", "Error", "Error", "exc_running")
    /\ StatusOnly
\* app.py 221, 388
worker_exception_running(w) ==
    /\ proc[w].alive /\ proc[w].pc = "exc_running"
    /\ Set(w, "running", FALSE, bool(FALSE), "exc_warnings")
    /\ StatusOnly
\* A handler that looks for the token/context words first: C28 must tell it
\* from the one below.
ExceptionWarningTokenFirst(w) ==
    IF Mentions(proc[w].exc, "token") \/ Mentions(proc[w].exc, "context")
    THEN "Context/token limit exceeded."
    ELSE IF Mentions(proc[w].exc, "timeout") \/ Mentions(proc[w].exc, "time")
    THEN "Timeout detected during " \o Stage(w)
    ELSE ""
\* app.py 226-231, 393-398: the words of the message choose an extra warning.
ExceptionWarning(w) ==
    IF Mentions(proc[w].exc, "timeout") \/ Mentions(proc[w].exc, "time")
    THEN "Timeout detected during " \o Stage(w)
    ELSE IF Mentions(proc[w].exc, "token") \/ Mentions(proc[w].exc, "context")
    THEN "Context/token limit exceeded."
    ELSE ""
worker_exception_warnings(w) ==
    /\ proc[w].alive /\ proc[w].pc = "exc_warnings"
    /\ IF ExceptionWarning(w) = ""
       THEN Move(w, "exit") /\ UNCHANGED analysis_status_shared
       ELSE Add(w, "warnings", ExceptionWarning(w), "exit")
    /\ StatusOnly

\* ------------------------------------------ run_dfir_analysis_worker (52)
Now == "now"                 \* datetime.now().isoformat()
FilePath == "test_data/log.json"

ValidDoc == Object({<<"EXECUTIVE_SUMMARY", "summary">>})
\* the shape app.py 183-197 wrote in an earlier run, with that run's timestamp
LegacyDoc == Object({<<"analysis", "markdown">>, <<"timestamp", "earlier">>})
InvalidDoc == Object({<<"findings", "none">>})
Garbage == Text("not json")
ListDoc == NonObject("[1, 2]")

\* What the analysis agent may leave in the artifact file by its own tool use.
ToolWrites == {ValidDoc, LegacyDoc, InvalidDoc, Garbage}
\* What the agent may return as final_output.
FinalOutputs == {Text("Analysis saved to dfir_reports/dfir_analysis.json"), InvalidDoc, ValidDoc, ListDoc}

\* app.py 95
dfir_progress(w) ==
    /\ At(w, "dfir", "progress")
    /\ Set(w, "progress", "Starting DFIR analysis...", "Starting DFIR analysis...", "step")
    /\ StatusOnly
\* app.py 96
dfir_step(w) ==
    /\ At(w, "dfir", "step")
    /\ Set(w, "current_step", "DFIR Analysis", "DFIR Analysis", "initializing")
    /\ StatusOnly
\* app.py 106-108: the import of main may raise.
dfir_initializing(w, raised) ==
    /\ At(w, "dfir", "initializing")
    /\ IF raised
       THEN Raise(w, "connection refused") /\ UNCHANGED analysis_status_shared
       ELSE Set(w, "progress", "Initializing CAI agents...", "Initializing CAI agents...", "running_progress")
    /\ Faulty(raised)
\* app.py 111-117: DFIRReportManager() may raise.
dfir_running_progress(w, raised) ==
    /\ At(w, "dfir", "running_progress")
    /\ IF raised
       THEN Raise(w, "connection refused") /\ UNCHANGED analysis_status_shared
       ELSE Set(w, "progress", "Running DFIR analysis...", "Running DFIR analysis...", "running_step")
    /\ Faulty(raised)
\* app.py 118
dfir_running_step(w) ==
    /\ At(w, "dfir", "running_step")
    /\ Set(w, "current_step", "DFIR Analysis", "DFIR Analysis", "tool")
    /\ StatusOnly

\* main.py 115-122: while Runner.run is under way the agent may write the file.
dfir_tool(w, written) ==
    /\ At(w, "dfir", "tool")
    /\ artifact' = IF written = Missing THEN artifact ELSE [doc |-> written, by |-> w]
    /\ proc' = [proc EXCEPT ![w].pc = "engine", ![w].calls = @ + 1]
    /\ UNCHANGED <<analysis_status_shared, report_html, report_copy>>
    /\ WorkerFrame /\ UNCHANGED faults

\* main.py 124-146: what run_dfir_analysis returns once Runner.run has returned.
run_dfir_analysis(file, final_output) ==
    IF validate(file) \in {"Valid", "ValidLegacy"} THEN Object(file.obj) ELSE final_output

\* app.py 125-130 with main.py 115-146: the awaited call returns, times out
\* (asyncio.TimeoutError of either wait_for) or raises.
EngineOutcomes == {"returned", "timeout", "raised"}
dfir_engine(w, outcome, final_output, msg) ==
    /\ At(w, "dfir", "engine")
    /\ proc' = [proc EXCEPT
           ![w].pc = IF outcome = "returned" THEN "reconcile"
                     ELSE IF outcome = "timeout" THEN "to_errors" ELSE "exc_errors",
           ![w].ended = outcome,
           ![w].out = IF outcome = "returned" THEN run_dfir_analysis(artifact.doc, final_output) ELSE @,
           ![w].exc = IF outcome = "raised" THEN msg ELSE @]
    /\ UNCHANGED analysis_status_shared
    /\ Faulty(outcome # "returned")

\* A rewrite that keeps the two metadata keys and drops the content: C15 must
\* tell it from the one below.
StampedOnly(o) == {p \in o : p[1] = "timestamp"} \cup {<<"file_path", FilePath>>}
\* A stamping that sets the two keys whether or not the file has them: C29
\* must tell it from the one below.
Restamped(o) == WithKey(WithKey(o, "timestamp", Now), "file_path", FilePath)
\* app.py 137-169: the file is kept when it exists and has a known shape; the
\* keys timestamp and file_path are added when absent.
Stamped(o) == WithDefault(WithDefault(o, "timestamp", Now), "file_path", FilePath)
\* A fallback that stores what the returned text parses to, without wrapping a
\* non-object: C16 must tell it from the one below.
FromParsedOutput(out) ==
    IF out.kind = "object"
    THEN WithKey(WithKey(out.obj, "timestamp", Now), "file_path", FilePath)
    ELSE {<<"timestamp", Now>>, <<"file_path", FilePath>>}
\* app.py 172-197: otherwise the returned text is parsed: a dict is written with
\* the two keys set, anything else is wrapped under "analysis".
FromOutput(out) ==
    IF out.kind = "object"
    THEN WithKey(WithKey(out.obj, "timestamp", Now), "file_path", FilePath)
    ELSE {<<"analysis", out.txt>>, <<"timestamp", Now>>, <<"file_path", FilePath>>}
\* A reconciliation that always takes the returned text: C13 must tell it from
\* the one below.
ReconciledFromOutput(file, out) == Object(FromOutput(out))
Reconciled(file, out) ==
    IF validate(file) \in {"Valid", "ValidLegacy"} THEN Object(Stamped(file.obj)) ELSE Object(FromOutput(out))

\* app.py 132-197
dfir_reconcile(w) ==
    /\ At(w, "dfir", "reconcile")
    /\ artifact' = [doc |-> Reconciled(artifact.doc, proc[w].out),
                    by |-> IF validate(artifact.doc) \in {"Valid", "ValidLegacy"} THEN artifact.by ELSE w]
    /\ Move(w, "done_progress")
    /\ UNCHANGED <<analysis_status_shared, report_html, report_copy>>
    /\ WorkerFrame /\ UNCHANGED faults

\* app.py 199
dfir_done_progress(w) ==
    /\ At(w, "dfir", "done_progress")
    /\ Set(w, "progress", "DFIR analysis completed successfully", "DFIR analysis completed successfully", "done_step")
    /\ StatusOnly
\* app.py 200
dfir_done_step(w) ==
    /\ At(w, "dfir", "done_step")
    /\ Set(w, "current_step", "DFIR Completed", "DFIR Completed", "done_ready")
    /\ StatusOnly
\* app.py 201
dfir_done_ready(w) ==
    /\ At(w, "dfir", "done_ready")
    /\ Set(w, "dfir_analysis_ready", TRUE, bool(TRUE), "done_running")
    /\ StatusOnly
\* app.py 202
dfir_done_running(w) ==
    /\ At(w, "dfir", "done_running")
    /\ Set(w, "running", FALSE, bool(FALSE), "exit")
    /\ StatusOnly

\* -------------------------------------- run_report_generation_worker (242)
\* str.lower() and str.replace(' ', '_') on one character
Upper == {"A", "D", "F", "I", "R"}
lower(c) ==
    CASE c = "A" -> "a" [] c = "D" -> "d" [] c = "F" -> "f" [] c = "I" -> "i" [] c = "R" -> "r"
      [] OTHER -> c
\* app.py 361: incident_title.replace(' ', '_').lower()
slug(title) == [i \in 1..Len(title) |-> IF title[i] = " " THEN "_" ELSE lower(title[i])]
report_filename(title) == <<"dfir_report_">> \o slug(title) \o <<".html">>

Html(o) == Doc("html", "", o)
AgentText == Text("HTML report generated successfully and saved")

\* app.py 282
report_progress(w) ==
    /\ At(w, "report", "progress")
    /\ Set(w, "progress", "Starting report generation...", "Starting report generation...", "step")
    /\ StatusOnly
\* app.py 283
report_step(w) ==
    /\ At(w, "report", "step")
    /\ Set(w, "current_step", "Report Generation", "Report Generation", "initializing")
    /\ StatusOnly
\* app.py 285-324: the first look for the artifact file, the import of main.
report_initializing(w, raised) ==
    /\ At(w, "report", "initializing")
    /\ IF artifact.doc.kind = "missing"
       THEN Add(w, "errors", "DFIR analysis not found. Please run the analysis first.", "nf_progress")
       ELSE IF raised
       THEN Raise(w, "connection refused") /\ UNCHANGED analysis_status_shared
       ELSE Set(w, "progress", "Initializing reporting agent...", "Initializing reporting agent...", "generating")
    /\ Faulty(raised)
\* app.py 329-345: DFIRReportManager() may raise; the second look for the file.
report_generating(w, raised) ==
    /\ At(w, "report", "generating")
    /\ IF raised
       THEN Raise(w, "connection refused") /\ UNCHANGED analysis_status_shared
       ELSE IF artifact.doc.kind = "missing"
       THEN Add(w, "errors", "Analysis file does not exist", "nf_progress")
       ELSE Set(w, "progress", "Generating HTML report...", "Generating HTML report...", "generating_step")
    /\ Faulty(raised)
\* app.py 346
report_generating_step(w) ==
    /\ At(w, "report", "generating_step")
    /\ Set(w, "current_step", "Report Generation", "Report Generation", "tool")
    /\ StatusOnly
\* app.py 291, 336
report_missing_progress(w) ==
    /\ At(w, "report", "nf_progress")
    /\ Set(w, "progress", "Error: Analysis not found", "Error: Analysis not found", "nf_step")
    /\ StatusOnly
\* app.py 292, 337
report_missing_step(w) ==
    /\ At(w, "report", "nf_step")
    /\ Set(w, "current_step", "Error", "Error", "nf_running")
    /\ StatusOnly
\* app.py 293-294, 338-339
report_missing_running(w) ==
    /\ At(w, "report", "nf_running")
    /\ Set(w, "running", FALSE, bool(FALSE), "exit")
    /\ StatusOnly

\* reporting_agent.py 96-233: generate_html_from_template, when the agent calls
\* it: the artifact is rendered into dfir_report.html; a file that does not
\* load as a dict makes the tool return an error text and write nothing.
generate_html_from_template(w, file, html) ==
    IF file.doc.kind = "object" THEN [doc |-> Html(file.doc.obj), by |-> w] ELSE html

\* A reporting agent that also has the file-writing tools of the analysis agent
\* and saves what it rendered over the artifact: C18 must tell it from the one below.
report_tool_rewriting(w, called) ==
    /\ At(w, "report", "tool")
    /\ report_html' = IF called THEN generate_html_from_template(w, artifact, report_html) ELSE report_html
    /\ artifact' = IF called THEN [doc |-> Garbage, by |-> w] ELSE artifact
    /\ proc' = [proc EXCEPT ![w].pc = "engine", ![w].calls = @ + 1]
    /\ UNCHANGED <<analysis_status_shared, report_copy>>
    /\ WorkerFrame /\ UNCHANGED faults

\* main.py 180-187: while Runner.run is under way the agent may call the tool.
report_tool(w, called) ==
    /\ At(w, "report", "tool")
    /\ report_html' = IF called THEN generate_html_from_template(w, artifact, report_html) ELSE report_html
    /\ proc' = [proc EXCEPT ![w].pc = "engine", ![w].calls = @ + 1]
    /\ UNCHANGED <<analysis_status_shared, artifact, report_copy>>
    /\ WorkerFrame /\ UNCHANGED faults

\* main.py 192-203: what generate_report returns once Runner.run has returned.
generate_report_result(html) == IF html.doc.kind = "missing" THEN AgentText ELSE html.doc

\* app.py 353-358 with main.py 180-203
report_engine(w, outcome, msg) ==
    /\ At(w, "report", "engine")
    /\ proc' = [proc EXCEPT
           ![w].pc = IF outcome = "returned" THEN "done_path"
                     ELSE IF outcome = "timeout" THEN "to_errors" ELSE "exc_errors",
           ![w].ended = outcome,
           ![w].out = IF outcome = "returned" THEN generate_report_result(report_html) ELSE @,
           ![w].exc = IF outcome = "raised" THEN msg ELSE @]
    /\ UNCHANGED analysis_status_shared
    /\ Faulty(outcome # "returned")

\* A worker that writes the copy and goes on without setting report_path:
\* C19 must tell it from the one below.
report_done_copy_only(w) ==
    /\ At(w, "report", "done_path")
    /\ report_copy' = [doc |-> proc[w].out, by |-> w, name |-> report_filename(proc[w].title)]
    /\ Move(w, "done_progress")
    /\ UNCHANGED <<analysis_status_shared, artifact, report_html>>
    /\ WorkerFrame /\ UNCHANGED faults
\* app.py 360-366: the per-run copy is written, then report_path is set.
report_done_path(w) ==
    /\ At(w, "report", "done_path")
    /\ report_copy' = [doc |-> proc[w].out, by |-> w, name |-> report_filename(proc[w].title)]
    /\ Set(w, "report_path", <<"dfir_reports/">> \o report_filename(proc[w].title), "path", "done_progress")
    /\ UNCHANGED <<artifact, report_html>>
    /\ WorkerFrame /\ UNCHANGED faults
\* app.py 367
report_done_progress(w) ==
    /\ At(w, "report", "done_progress")
    /\ Set(w, "progress", "HTML report generated successfully", "HTML report generated successfully", "done_step")
    /\ StatusOnly
\* app.py 368
report_done_step(w) ==
    /\ At(w, "report", "done_step")
    /\ Set(w, "current_step", "Completed", "Completed", "done_running")
    /\ StatusOnly
\* app.py 369
report_done_running(w) ==
    /\ At(w, "report", "done_running")
    /\ Set(w, "running", FALSE, bool(FALSE), "exit")
    /\ StatusOnly

\* -------------------------------------------------------------- status (754)
\* app.py 35-42: the module's own analysis_status, returned while no
\* dictionary exists (it has no key dfir_analysis_ready).
analysis_status == [NoDict EXCEPT !.exists = TRUE, !.keys = Keys \ {"dfir_analysis_ready"}]

Quiescent == AliveProcs = {} /\ Busy = {}
PollFrame ==
    UNCHANGED <<manager, analysis_status_shared, Handles, proc, thread, Files, proxy_has_clear, kills, faults, scope, issued>> /\ Watch

\* One .get of the copy at app.py 762-770.
Get(k, next) ==
    /\ poll' = [pc |-> next, quiet |-> poll.quiet /\ Quiescent, calm |-> poll.calm /\ Busy = {},
                copy |-> [poll.copy EXCEPT ![k] = analysis_status_shared[k]]]
    /\ NoReply
    /\ UNCHANGED reads
    /\ PollFrame

\* app.py 760-763: without a dictionary the local status is returned at once.
status_running ==
    /\ poll.pc = "idle"
    /\ reads < scope.reads
    /\ reads' = reads + 1
    /\ IF analysis_status_shared.exists
       THEN /\ poll' = [pc |-> "progress", quiet |-> Quiescent, calm |-> Busy = {},
                        copy |-> [FullDict(FALSE) EXCEPT !.running = analysis_status_shared.running]]
            /\ NoReply
       ELSE /\ poll' = IdlePoll
            /\ response' = NoResponse
            /\ observed' = [taken |-> TRUE, quiet |-> Quiescent, calm |-> Busy = {}, whole |-> TRUE,
                             status |-> analysis_status]
    /\ PollFrame
\* app.py 764
status_progress == poll.pc = "progress" /\ Get("progress", "errors")
\* app.py 765
status_errors == poll.pc = "errors" /\ Get("errors", "warnings")
\* app.py 766
status_warnings == poll.pc = "warnings" /\ Get("warnings", "current_step")
\* app.py 767
status_current_step == poll.pc = "current_step" /\ Get("current_step", "report_path")
\* app.py 768
status_report_path == poll.pc = "report_path" /\ Get("report_path", "dfir_analysis_ready")
\* app.py 769
status_ready == poll.pc = "dfir_analysis_ready" /\ Get("dfir_analysis_ready", "alive")

\* app.py 772-778: running is cleared when the handle of the stage that
\* current_step names is set and its process is no longer alive.
Handle(h) == h # 0
Revalidated(c) ==
    IF \/ Handle(analysis_process) /\ ~is_alive(analysis_process) /\ c.current_step = "DFIR Analysis"
       \/ Handle(report_process) /\ ~is_alive(report_process) /\ c.current_step = "Report Generation"
    THEN [c EXCEPT !.running = FALSE]
    ELSE c

\* app.py 772-782
status_return ==
    /\ poll.pc = "alive"
    /\ poll' = IdlePoll
    /\ response' = NoResponse
    /\ observed' = [taken |-> TRUE, quiet |-> poll.quiet /\ Quiescent, calm |-> poll.calm /\ Busy = {},
                    whole |-> Fields(poll.copy) \in seen, status |-> Revalidated(poll.copy)]
    /\ UNCHANGED reads
    /\ PollFrame

\* ------------------------------------------------------------ the system
\* What an earlier coordinator process may have left on durable storage.
StaleHtml == Html({<<"EXECUTIVE_SUMMARY", "earlier">>})

\* The behaviours explored.  Each scope bounds one way of using the system:
\* requests served one after the other with both workers running side by side,
\* requests served by racing threads, and one run watched by status polls
\* while its worker may be killed.
Sequential ==
    [requests |-> MaxRequests, threads |-> 1, kills |-> 0, reads |-> 0, faults |-> MaxFaults,
     artifacts |-> {Missing, ValidDoc, InvalidDoc}, html |-> {Missing}, clear |-> {FALSE}]
Racing ==
    [requests |-> MaxRequests, threads |-> MaxThreads, kills |-> 0, reads |-> 0, faults |-> 0,
     artifacts |-> {Missing, ValidDoc}, html |-> {Missing}, clear |-> {FALSE}]
Observed ==
    [requests |-> 1, threads |-> 1, kills |-> MaxKills, reads |-> MaxReads, faults |-> MaxFaults,
     artifacts |-> {Missing, ValidDoc}, html |-> {Missing}, clear |-> {TRUE}]
Scopes == {Sequential, Racing, Observed}

\* app.py 34-45, 544-548: the module's globals after import.
Init ==
    /\ manager = FALSE
    /\ analysis_status_shared = NoDict
    /\ analysis_process = 0
    /\ report_process = 0
    /\ proc = [w \in Procs |-> NoProc]
    /\ thread = [t \in Threads |-> IdleThread]
    /\ poll = IdlePoll
    /\ scope \in Scopes
    /\ artifact \in {[doc |-> d, by |-> 0] : d \in scope.artifacts}
    /\ report_html \in {[doc |-> d, by |-> 0] : d \in scope.html}
    /\ report_copy = [doc |-> Missing, by |-> 0, name |-> <<>>]
    /\ proxy_has_clear \in scope.clear
    /\ response = NoResponse
    /\ observed = NoSnapshot
    /\ issued = 0
    /\ kills = 0
    /\ reads = 0
    /\ faults = 0
    /\ seen = {}

Handler ==
    \E t \in Threads :
        \/ \E body \in Bodies : analyze_dfir(t, body)
        \/ analyze_manager(t) \/ analyze_dict(t) \/ analyze_running(t) \/ analyze_progress(t)
        \/ analyze_errors(t) \/ analyze_warnings(t) \/ analyze_step(t) \/ analyze_ready(t)
        \/ \E started \in BOOLEAN : analyze_spawn(t, started)
        \/ \E body \in {"none", "ok"}, title \in Titles : generate_report(t, body, title)
        \/ generate_ready(t) \/ generate_manager(t) \/ generate_dict(t) \/ generate_running(t)
        \/ generate_progress(t) \/ generate_errors(t) \/ generate_warnings(t) \/ generate_step(t)
        \/ \E started \in BOOLEAN : generate_spawn(t, started)

\* One statement of worker w (everything a worker does by itself).
Run(w) ==
    \/ \E outcome \in DirOutcomes : worker_dirs(w, outcome)
    \/ worker_dir_errors(w) \/ worker_dir_progress(w) \/ worker_dir_running(w)
    \/ worker_running(w) \/ worker_clear_errors(w) \/ worker_clear_warnings(w)
    \/ worker_timeout_errors(w) \/ worker_timeout_warnings(w) \/ worker_timeout_progress(w)
    \/ worker_timeout_step(w) \/ worker_timeout_running(w)
    \/ worker_exception_errors(w) \/ worker_exception_progress(w) \/ worker_exception_step(w)
    \/ worker_exception_running(w) \/ worker_exception_warnings(w)
    \/ worker_exit(w)
    \/ dfir_progress(w) \/ dfir_step(w)
    \/ \E raised \in BOOLEAN : dfir_initializing(w, raised)
    \/ \E raised \in BOOLEAN : dfir_running_progress(w, raised)
    \/ dfir_running_step(w)
    \/ \E written \in {Missing} \cup ToolWrites : dfir_tool(w, written)
    \/ \E outcome \in EngineOutcomes, final_output \in FinalOutputs, msg \in ExcMessages :
           dfir_engine(w, outcome, final_output, msg)
    \/ dfir_reconcile(w)
    \/ dfir_done_progress(w) \/ dfir_done_step(w) \/ dfir_done_ready(w) \/ dfir_done_running(w)
    \/ report_progress(w) \/ report_step(w)
    \/ \E raised \in BOOLEAN : report_initializing(w, raised)
    \/ \E raised \in BOOLEAN : report_generating(w, raised)
    \/ report_generating_step(w)
    \/ report_missing_progress(w) \/ report_missing_step(w) \/ report_missing_running(w)
    \/ \E called \in BOOLEAN : report_tool(w, called)
    \/ \E outcome \in EngineOutcomes, msg \in ExcMessages : report_engine(w, outcome, msg)
    \/ report_done_path(w) \/ report_done_progress(w) \/ report_done_step(w) \/ report_done_running(w)

Worker == \E w \in Procs : Run(w) \/ worker_killed(w)

Observer ==
    \/ status_running \/ status_progress \/ status_errors \/ status_warnings
    \/ status_current_step \/ status_report_path \/ status_ready \/ status_return

Next == Handler \/ Worker \/ Observer

Spec == Init /\ [][Next]_vars

\* =========================================== workers that are left to run
\* Requests served one at a time and workers that nothing kills: a worker
\* process that can take a step is scheduled by the operating system sooner or
\* later, and the awaited engine call ends by returning, by raising or by the
\* asyncio.wait_for deadline (app.py 125-130, 353-358; main.py 115-122, 180-187).
LiveScope ==
    [requests |-> MaxRequests, threads |-> 1, kills |-> 0, reads |-> 0, faults |-> MaxFaults,
     artifacts |-> {Missing}, html |-> {Missing}, clear |-> {FALSE}]
LiveInit ==
    /\ manager = FALSE
    /\ analysis_status_shared = NoDict
    /\ analysis_process = 0
    /\ report_process = 0
    /\ proc = [w \in Procs |-> NoProc]
    /\ thread = [t \in Threads |-> IdleThread]
    /\ poll = IdlePoll
    /\ scope = LiveScope
    /\ artifact \in {[doc |-> d, by |-> 0] : d \in scope.artifacts}
    /\ report_html \in {[doc |-> d, by |-> 0] : d \in scope.html}
    /\ report_copy = [doc |-> Missing, by |-> 0, name |-> <<>>]
    /\ proxy_has_clear \in scope.clear
    /\ response = NoResponse
    /\ observed = NoSnapshot
    /\ issued = 0
    /\ kills = 0
    /\ reads = 0
    /\ faults = 0
    /\ seen = {}
LiveNext == Handler \/ \E w \in Procs : Run(w)
Fairness == \A w \in Procs : WF_vars(Run(w))
LiveSpec == LiveInit /\ [][LiveNext]_vars /\ Fairness

\* ================================== one analysis run, over every shape
\* The engine call of an analysis worker and what follows it (app.py 120-202),
\* explored from the state in which the worker is about to await the engine,
\* for every shape of file the agent can leave behind and every shape of text
\* it can return.
ShapeKeys == {"EXECUTIVE_SUMMARY", "executive_summary", "analysis", "findings", "timestamp"}
ValueOf(k) ==
    CASE k \in {"EXECUTIVE_SUMMARY", "executive_summary"} -> "summary"
      [] k = "analysis" -> "markdown"
      [] k = "findings" -> "none"
      [] OTHER -> "earlier"
Objects == {Object({<<k, ValueOf(k)>> : k \in ks}) : ks \in SUBSET ShapeKeys}
\* what json.load / json.loads can meet: no file, text that does not parse,
\* a list, a string, a number, an object
Shapes == Objects \cup {Missing, Garbage, ListDoc, NonObject("'markdown'"), NonObject("42")}

RunScope ==
    [requests |-> 1, threads |-> 1, kills |-> 0, reads |-> 0, faults |-> 0,
     artifacts |-> {Missing}, html |-> {Missing}, clear |-> {FALSE}]

\* The state of Spec after one /analyze-dfir request, once its worker has gone
\* through app.py 90-118.
RunInit ==
    /\ manager = TRUE
    /\ analysis_status_shared =
           [FullDict(FALSE) EXCEPT !.running = TRUE, !.progress = "Running DFIR analysis...",
                                   !.current_step = "DFIR Analysis"]
    /\ analysis_process = 1
    /\ report_process = 0
    /\ proc = [w \in Procs |->
                  IF w = 1
                  THEN [NewProc("dfir", <<>>) EXCEPT
                           !.pc = "tool",
                           !.log = << <<"running", "True">>,
                                      <<"progress", "Starting DFIR analysis...">>,
                                      <<"current_step", "DFIR Analysis">>,
                                      <<"progress", "Initializing CAI agents...">>,
                                      <<"progress", "Running DFIR analysis...">>,
                                      <<"current_step", "DFIR Analysis">> >>]
                  ELSE NoProc]
    /\ thread = [t \in Threads |-> IdleThread]
    /\ poll = IdlePoll
    /\ scope = RunScope
    /\ artifact = [doc |-> Missing, by |-> 0]
    /\ report_html = [doc |-> Missing, by |-> 0]
    /\ report_copy = [doc |-> Missing, by |-> 0, name |-> <<>>]
    /\ proxy_has_clear = FALSE
    /\ response = NoResponse
    /\ observed = NoSnapshot
    /\ issued = 1
    /\ kills = 0
    /\ reads = 0
    /\ faults = 0
    /\ seen = {}

RunNext ==
    \E w \in Procs :
        \/ \E written \in Shapes : dfir_tool(w, written)
        \/ \E final_output \in Shapes \ {Missing} : dfir_engine(w, "returned", final_output, "")
        \/ dfir_reconcile(w)
        \/ dfir_done_progress(w) \/ dfir_done_step(w) \/ dfir_done_ready(w) \/ dfir_done_running(w)

RunSpec == RunInit /\ [][RunNext]_vars

\* ------------------------------------------ run_complete_workflow (main.py 205)
\* The two stages in one process: run_analysis_worker (app.py 409) awaits
\* run_complete_workflow under one more timeout and reports its outcome.
WorkflowScope ==
    [requests |-> 0, threads |-> 0, kills |-> 0, reads |-> 0, faults |-> 0,
     artifacts |-> {Missing, ValidDoc}, html |-> {Missing, StaleHtml}, clear |-> {FALSE}]

\* run_analysis_worker has gone through app.py 445-474 and is about to await
\* the workflow; the files are what earlier runs left.
WorkflowInit ==
    /\ manager = TRUE
    /\ analysis_status_shared =
           [FullDict(FALSE) EXCEPT !.running = TRUE, !.progress = "Running DFIR analysis...",
                                   !.current_step = "DFIR Analysis"]
    /\ analysis_process = 1
    /\ report_process = 0
    /\ proc = [w \in Procs |->
                  IF w = 1 THEN [NewProc("workflow", DefaultTitle) EXCEPT !.pc = "step1_tool"]
                  ELSE NoProc]
    /\ thread = [t \in Threads |-> IdleThread]
    /\ poll = IdlePoll
    /\ scope = WorkflowScope
    /\ \E d \in scope.artifacts : artifact = [doc |-> d, by |-> 0]
    /\ \E h \in scope.html : report_html = [doc |-> h, by |-> 0]
    /\ report_copy = [doc |-> Missing, by |-> 0, name |-> <<>>]
    /\ proxy_has_clear = FALSE
    /\ response = NoResponse
    /\ observed = NoSnapshot
    /\ issued = 0
    /\ kills = 0
    /\ reads = 0
    /\ faults = 0
    /\ seen = {}

\* A workflow that swallows the failure of a step and goes on: C17 must tell it
\* from the one below.
GoOn(w, outcome, msg, next) ==
    proc' = [proc EXCEPT ![w].pc = next, ![w].ended = outcome,
                         ![w].exc = IF outcome = "raised" THEN msg ELSE @]
\* an exception or a timeout inside the awaited workflow leaves for the
\* handlers of run_analysis_worker (app.py 506, 516)
Leave(w, outcome, msg, next) ==
    proc' = [proc EXCEPT ![w].pc = IF outcome = "returned" THEN next
                                   ELSE IF outcome = "timeout" THEN "timeout" ELSE "exception",
                         ![w].ended = outcome,
                         ![w].exc = IF outcome = "raised" THEN msg ELSE @]

\* main.py 222 with 115-122: during step 1 the analysis agent may write the artifact
workflow_dfir_tool(w, written) ==
    /\ At(w, "workflow", "step1_tool")
    /\ artifact' = IF written = Missing THEN artifact ELSE [doc |-> written, by |-> w]
    /\ proc' = [proc EXCEPT ![w].pc = "step1", ![w].calls = @ + 1,
                            ![w].log = Append(@, <<"Runner.run", "dfir_agent">>)]
    /\ UNCHANGED <<analysis_status_shared, report_html, report_copy>>
    /\ WorkerFrame /\ UNCHANGED faults

\* main.py 220-227: step 1 returns (its text is not used by step 2), or its exception (a timeout of main.py 115
\* or of app.py 481 included) is raised again and ends the workflow
workflow_step1(w, outcome, msg) ==
    /\ At(w, "workflow", "step1")
    /\ Leave(w, outcome, msg, "step2_tool")
    /\ UNCHANGED <<analysis_status_shared, Files>>
    /\ WorkerFrame /\ UNCHANGED faults

\* main.py 232 with 180-187: during step 2 the reporting agent may call its tool
workflow_report_tool(w, called) ==
    /\ At(w, "workflow", "step2_tool")
    /\ report_html' = IF called THEN generate_html_from_template(w, artifact, report_html) ELSE report_html
    /\ proc' = [proc EXCEPT ![w].pc = "step2", ![w].calls = @ + 1,
                            ![w].log = Append(@, <<"Runner.run", "reporting_agent">>)]
    /\ UNCHANGED <<analysis_status_shared, artifact, report_copy>>
    /\ WorkerFrame /\ UNCHANGED faults

\* main.py 230-247: step 2 returns what generate_report read, or raises again
workflow_step2(w, outcome, msg) ==
    /\ At(w, "workflow", "step2")
    /\ Leave(w, outcome, msg, "save")
    /\ UNCHANGED <<analysis_status_shared, Files>>
    /\ WorkerFrame /\ UNCHANGED faults

\* main.py 249-264: the report is saved under the title's file name
workflow_save(w) ==
    /\ At(w, "workflow", "save")
    /\ report_copy' = [doc |-> generate_report_result(report_html), by |-> w,
                       name |-> report_filename(proc[w].title)]
    /\ Move(w, "completed")
    /\ UNCHANGED <<analysis_status_shared, artifact, report_html>>
    /\ WorkerFrame /\ UNCHANGED faults

\* app.py 491-504: the newest dfir_report_*.html is the one just saved
workflow_completed(w) ==
    /\ At(w, "workflow", "completed")
    /\ analysis_status_shared' =
           Put(Put(Put(Put(analysis_status_shared,
               "report_path", <<"dfir_reports/">> \o report_copy.name),
               "progress", "Analysis completed successfully"),
               "current_step", "Completed"),
               "running", FALSE)
    /\ Move(w, "exit")
    /\ StatusOnly

\* app.py 506-514
workflow_timeout(w) ==
    /\ At(w, "workflow", "timeout")
    /\ analysis_status_shared' =
           Put(Put(Put(AppendTo(AppendTo(analysis_status_shared,
               "errors", "Timeout during analysis: "),
               "warnings", "Analysis exceeded the time limit."),
               "progress", "Error: Timeout"),
               "current_step", "Error"),
               "running", FALSE)
    /\ Move(w, "exit")
    /\ StatusOnly

\* app.py 516-532
workflow_exception(w) ==
    /\ At(w, "workflow", "exception")
    /\ analysis_status_shared' =
           LET failed == Put(Put(Put(AppendTo(analysis_status_shared,
                             "errors", "Error during analysis: " \o proc[w].exc),
                             "progress", "Error: " \o proc[w].exc),
                             "current_step", "Error"),
                             "running", FALSE)
           IN  IF Mentions(proc[w].exc, "timeout") \/ Mentions(proc[w].exc, "time")
               THEN AppendTo(failed, "warnings", "Timeout detected.")
               ELSE IF Mentions(proc[w].exc, "token") \/ Mentions(proc[w].exc, "context")
               THEN AppendTo(failed, "warnings", "Context/token limit exceeded.")
               ELSE failed
    /\ Move(w, "exit")
    /\ StatusOnly

WorkflowNext ==
    \E w \in Procs :
        \/ \E written \in Shapes : workflow_dfir_tool(w, written)
        \/ \E outcome \in EngineOutcomes, msg \in ExcMessages : workflow_step1(w, outcome, msg)
        \/ \E called \in BOOLEAN : workflow_report_tool(w, called)
        \/ \E outcome \in EngineOutcomes, msg \in ExcMessages : workflow_step2(w, outcome, msg)
        \/ workflow_save(w)
        \/ workflow_completed(w)
        \/ workflow_timeout(w)
        \/ workflow_exception(w)
WorkflowSpec == WorkflowInit /\ [][WorkflowNext]_vars

\* ============================== generate_html_from_template, token by token
\* reporting_agent.py 128-214 on the text level. A text is a sequence of
\* tokens; the token "{{KEY}}" is a placeholder, every other token stands for
\* text without braces. A string field of the artifact is such a sequence, a
\* list field is a sequence of entries, an entry is the sequence of the texts
\* that .get takes from it (a cards entry is <<number, label>>; an entry that is
\* not a dict is given as a sequence of one text).
MaxCards == 2

Ph(k) == "{{" \o k \o "}}"
\* str.replace: one pass from left to right; what it inserts is not looked at again
RECURSIVE Replace(_, _, _)
Replace(html, k, val) ==
    IF html = <<>> THEN <<>>
    ELSE (IF Head(html) = Ph(k) THEN val ELSE <<Head(html)>>) \o Replace(Tail(html), k, val)

\* reporting_agent.py 129-136 and 146-150, in the order of the two dicts
StringKeys == <<"INCIDENT_TITLE", "INCIDENT_DATES", "EXECUTIVE_SUMMARY", "TIMELINE_DESCRIPTION",
                "FORENSIC_CONCLUSION", "REPORT_FOOTER", "ENTRY_POINTS_CONTENT", "IOCS_CONTENT",
                "RECOMMENDATIONS_CONTENT">>
\* reporting_agent.py 158, 172, 199, in the order of the statements
ListKeys == <<"STATISTICS_CARDS", "TIMELINE_EVENTS", "ATTACK_OBJECTIVES">>
\* data.get(key, "") and the absent list
Field(data, k) == IF HasKey(data, k) THEN (CHOOSE p \in data : p[1] = k)[2] ELSE <<>>

\* reporting_agent.py 160-163, 174-190, 201-209: one generated element per entry
RECURSIVE Elements(_, _)
Elements(k, list) ==
    IF list = <<>> THEN <<>>
    ELSE <<"<div " \o k \o ">">> \o Head(list) \o <<"</div>">> \o Elements(k, Tail(list))

\* reporting_agent.py 141-214: the replacements, one key after the other
RECURSIVE RenderFrom(_, _, _)
RenderFrom(html, data, i) ==
    IF i > Len(StringKeys) + Len(ListKeys) THEN html
    ELSE IF i <= Len(StringKeys)
    THEN RenderFrom(Replace(html, StringKeys[i], Field(data, StringKeys[i])), data, i + 1)
    ELSE LET k == ListKeys[i - Len(StringKeys)]
         IN  RenderFrom(Replace(html, k, Elements(k, Field(data, k))), data, i + 1)
Render(template, data) == RenderFrom(template, data, 1)

\* reporting_agent.py 161-162: stat.get on an entry that is not a dict raises,
\* and the except at 230 returns an error text without writing the file
Renderable(data) == \A i \in 1..Len(Field(data, "STATISTICS_CARDS")) : Len(Field(data, "STATISTICS_CARDS")[i]) = 2

\* Artifacts whose texts are plain, name a placeholder of the template, or
\* quote a template expression found in the analysed logs.
RenderInputs ==
    LET CardEntries == {<<"3", "IOCs">>, <<"5", "{{7*7}}">>, <<"7">>}
        CardLists == UNION {[1..n -> CardEntries] : n \in 0..MaxCards}
    IN  {Object({<<"INCIDENT_TITLE", title>>, <<"EXECUTIVE_SUMMARY", <<"summary">> >>,
                 <<"FORENSIC_CONCLUSION", conclusion>>, <<"STATISTICS_CARDS", cards>>}) :
            title \in {<<"Incident">>, <<"{{FORENSIC_CONCLUSION}}">>},
            conclusion \in {<<>>, <<"done">>, <<"payload", "{{7*7}}">>, <<"{{INCIDENT_TITLE}}">>},
            cards \in CardLists}
\* Templates whose placeholders are among the twelve keys, the cards once.
Templates ==
    {<<"<h1>", "{{INCIDENT_TITLE}}", "</h1>", "{{EXECUTIVE_SUMMARY}}", "{{STATISTICS_CARDS}}",
       "{{FORENSIC_CONCLUSION}}", "{{REPORT_FOOTER}}">>,
     <<"{{STATISTICS_CARDS}}", "{{TIMELINE_EVENTS}}", "{{ATTACK_OBJECTIVES}}", "{{IOCS_CONTENT}}",
       "{{INCIDENT_TITLE}}", "{{INCIDENT_TITLE}}">>}

\* The state of Spec after one /generate-report request, once its worker has
\* gone through app.py 276-346 and the agent is about to call its tool.
RenderInit ==
    /\ manager = TRUE
    /\ analysis_status_shared =
           [FullDict(TRUE) EXCEPT !.running = TRUE, !.progress = "Generating HTML report...",
                                  !.current_step = "Report Generation"]
    /\ analysis_process = 0
    /\ report_process = 1
    /\ proc = [w \in Procs |->
                  IF w = 1 THEN [NewProc("report", DefaultTitle) EXCEPT !.pc = "tool"] ELSE NoProc]
    /\ thread = [t \in Threads |-> IdleThread]
    /\ poll = IdlePoll
    /\ scope = [requests |-> 1, threads |-> 1, kills |-> 0, reads |-> 0, faults |-> 0,
                artifacts |-> RenderInputs, html |-> {Missing}, clear |-> {FALSE}]
    /\ artifact \in {[doc |-> d, by |-> 0] : d \in scope.artifacts}
    /\ report_html = [doc |-> Missing, by |-> 0]
    /\ report_copy = [doc |-> Missing, by |-> 0, name |-> <<>>]
    /\ proxy_has_clear = FALSE
    /\ response = NoResponse
    /\ observed = NoSnapshot
    /\ issued = 1
    /\ kills = 0
    /\ reads = 0
    /\ faults = 0
    /\ seen = {}

\* reporting_agent.py 105-233: the tool call on the artifact and a template
render_html(w, template) ==
    /\ At(w, "report", "tool")
    /\ report_html' = IF Renderable(artifact.doc.obj)
                      THEN [doc |-> Doc("html", Render(template, artifact.doc.obj), artifact.doc.obj),
                            by |-> w]
                      ELSE report_html
    /\ proc' = [proc EXCEPT ![w].pc = "engine", ![w].calls = @ + 1]
    /\ UNCHANGED <<analysis_status_shared, artifact, report_copy>>
    /\ WorkerFrame /\ UNCHANGED faults

RenderNext == \E w \in Procs, template \in Templates : render_html(w, template)
RenderSpec == RenderInit /\ [][RenderNext]_vars

\* ------------------------------------------------ the per-run file name
\* Titles a request can carry in incident_title (app.py 678): any string; here
\* every string of at most MaxTitle characters over a capital, a blank, a dot
\* and a slash.
MaxTitle == 4
SlugTitles ==
    LET Chars == {"R", " ", ".", "/"}
    IN  UNION {[1..n -> Chars] : n \in 0..MaxTitle}

\* The state of Spec after one /generate-report request with such a title, once
\* the worker's engine call (app.py 353-358) has returned.
SlugInit ==
    /\ manager = TRUE
    /\ analysis_status_shared =
           [FullDict(TRUE) EXCEPT !.running = TRUE, !.progress = "Generating HTML report...",
                                  !.current_step = "Report Generation"]
    /\ analysis_process = 0
    /\ report_process = 1
    /\ \E title \in SlugTitles :
           proc = [w \in Procs |->
                      IF w = 1
                      THEN [NewProc("report", title) EXCEPT
                               !.pc = "done_path", !.ended = "returned", !.calls = 1, !.out = AgentText]
                      ELSE NoProc]
    /\ thread = [t \in Threads |-> IdleThread]
    /\ poll = IdlePoll
    /\ scope = [requests |-> 1, threads |-> 1, kills |-> 0, reads |-> 0, faults |-> 0,
                artifacts |-> {ValidDoc}, html |-> {Missing}, clear |-> {FALSE}]
    /\ artifact = [doc |-> ValidDoc, by |-> 0]
    /\ report_html = [doc |-> Missing, by |-> 0]
    /\ report_copy = [doc |-> Missing, by |-> 0, name |-> <<>>]
    /\ proxy_has_clear = FALSE
    /\ response = NoResponse
    /\ observed = NoSnapshot
    /\ issued = 1
    /\ kills = 0
    /\ reads = 0
    /\ faults = 0
    /\ seen = {}

SlugNext ==
    \E w \in Procs :
        \/ report_done_path(w) \/ report_done_progress(w) \/ report_done_step(w)
        \/ report_done_running(w)
SlugSpec == SlugInit /\ [][SlugNext]_vars

\* ================================================================= claims
InLog(w, entry) == \E i \in 1..Len(proc[w].log) : proc[w].log[i] = entry
LastWrites(w, n) == SubSeq(proc[w].log, Len(proc[w].log) - n + 1, Len(proc[w].log))
Usable(d) == validate(d) \in {"Valid", "ValidLegacy"}

\* C1: at every instant at most one analysis worker and at most one report
\* worker is alive, whatever the interleaving of the start requests.
C1_OneWorkerPerStage ==
    /\ Cardinality(AliveOf("dfir")) <= 1
    /\ Cardinality(AliveOf("report")) <= 1

\* C2: a start request answered with a 400 (worker still alive, no body, no
\* file_path, no such file, analysis not found) makes no transition: it spawns
\* no worker and leaves the shared status record as it was.
C2_RejectedStartChangesNothing ==
    [][response'.code = 400 =>
          /\ analysis_status_shared' = analysis_status_shared
          /\ proc' = proc
          /\ analysis_process' = analysis_process
          /\ report_process' = report_process]_vars

\* C3: when the engine call of an analysis worker has returned and the
\* artifact it leaves is Invalid, the worker ends with current_step 'Error' and
\* never sets dfir_analysis_ready.
C3_InvalidArtifactFailsRun ==
    \A w \in Procs :
        (/\ proc[w].kind = "dfir" /\ proc[w].pc = "exit" /\ proc[w].ended = "returned"
         /\ validate(artifact.doc) = "Invalid")
        => /\ InLog(w, <<"current_step", "Error">>)
           /\ ~InLog(w, <<"dfir_analysis_ready", "True">>)

\* C4: a report worker starts its engine call only while the artifact on
\* storage validates as Valid or ValidLegacy.
C4_ReportNeedsUsableArtifact ==
    [][\A w \in Procs :
          (proc[w].kind = "report" /\ proc[w].calls = 0 /\ proc'[w].calls = 1) => Usable(artifact.doc)]_vars

\* C5: a report-start request that reaches the readiness check while the
\* artifact file is missing is answered 'analysis not found' at once, in every
\* state of the coordinator, and so spawns no worker.
C5_MissingArtifactRejected ==
    [][\A t \in Threads :
          (thread[t].pc = "g_ready" /\ thread'[t].pc # "g_ready" /\ artifact.doc.kind = "missing")
          => response'.msg = "DFIR analysis not found. Please run DFIR analysis first."]_vars

\* C6: a worker whose engine call timed out ends by appending the timeout
\* error and the time-limit warning and by setting progress, current_step
\* 'Error' and running false, in this order, and records no success: it writes
\* neither dfir_analysis_ready nor report_path.  When its request is the only
\* one issued, the record shows exactly that at the worker's end.
TimedOut(w) == proc[w].alive /\ proc[w].pc = "exit" /\ proc[w].ended = "timeout"
C6_TimeoutEndsInError ==
    \A w \in Procs :
        TimedOut(w) =>
            /\ LastWrites(w, 5) = << <<"errors", "Timeout during " \o Stage(w)>>,
                                     <<"warnings", TimeLimitWarning(w)>>,
                                     <<"progress", "Error: Timeout">>,
                                     <<"current_step", "Error">>,
                                     <<"running", "False">> >>
            /\ \A i \in 1..Len(proc[w].log) : proc[w].log[i][1] \notin {"dfir_analysis_ready", "report_path"}
            /\ issued = 1 =>
                   /\ analysis_status_shared.current_step = "Error"
                   /\ ~analysis_status_shared.running
                   /\ analysis_status_shared.errors = <<"Timeout during " \o Stage(w)>>
                   /\ analysis_status_shared.warnings = <<TimeLimitWarning(w)>>
                   /\ analysis_status_shared.report_path = <<>>
                   /\ proc[w].kind = "dfir" => ~analysis_status_shared.dfir_analysis_ready
\* a report worker, started by the only request, has handled its timeout
C6_Witness ==
    \E w \in Procs : TimedOut(w) /\ proc[w].kind = "report" /\ issued = 1 /\ proc[w].calls = 1

\* C7: a status read made while no worker is alive and no request is being
\* served returns running = false.
C7_NoWorkerNotRunning == (observed.taken /\ observed.quiet) => ~observed.status.running

\* C8: a status read made after a worker has ended, while nothing is alive and
\* no request is being served, returns a terminal current_step ('DFIR Completed'
\* counted as the analysis stage's 'Completed').
Ended == {w \in Procs : proc[w].pc \in {"exited", "killed"}}
C8_TerminalStepAfterExit ==
    (observed.taken /\ observed.quiet /\ Ended # {})
    => observed.status.current_step \in {"Error", "Completed", "DFIR Completed"}

\* C9: while the record says running = false and no request is being served,
\* no worker is alive that still has work to do (a worker past its last
\* statement is not counted, nor one that has only the extra warning of its
\* exception handler left to append).
Working == {w \in AliveProcs : proc[w].pc \notin {"exit", "exc_warnings"}}
C9_NotRunningMeansNoWorker ==
    (analysis_status_shared.exists /\ ~analysis_status_shared.running /\ Busy = {}) => Working = {}

\* C10: the seven fields a status read copied while no request was being
\* served (a worker is then the only writer) are, together, a value the record
\* held at some instant between the first .get and the last.
C10_SnapshotIsOneInstant == (observed.taken /\ observed.calm) => observed.whole

\* C11: each clearing statement of a worker's start-up reset leaves its list
\* empty: errors after the first, warnings after the second.
C11_ResetEmptiesLists ==
    [][\A w \in Procs :
          /\ (proc[w].pc = "clear_errors" /\ proc'[w].pc = "clear_warnings")
             => analysis_status_shared'.errors = <<>>
          /\ (proc[w].pc = "clear_warnings" /\ proc'[w].pc = "progress")
             => analysis_status_shared'.warnings = <<>>]_vars

\* C12: while an analysis worker is alive the analysis checkpoints held by the
\* record's progress field (the value any poll reads) never go back: from one
\* checkpoint of the analysis stage the field moves only to the same or a
\* later one (texts of the report stage and error texts are not compared).
Checkpoint(p) ==
    CASE p = "Starting DFIR analysis..." -> 1
      [] p = "Initializing CAI agents..." -> 2
      [] p = "Running DFIR analysis..." -> 3
      [] p = "DFIR analysis completed successfully" -> 4
      [] OTHER -> 0
C12_ProgressInCheckpointOrder ==
    [][(/\ AliveOf("dfir") # {}
        /\ Checkpoint(analysis_status_shared.progress) > 0
        /\ Checkpoint(analysis_status_shared'.progress) > 0)
       => Checkpoint(analysis_status_shared'.progress) >= Checkpoint(analysis_status_shared.progress)]_vars

\* C13: when the analysis worker reconciles the artifact after the engine call
\* has returned, a file that validates as Valid or ValidLegacy is kept: every
\* key and value of it stays, and nothing is added but a missing timestamp or
\* file_path.  Only otherwise is the returned text written: its keys when it
\* parses to an object, else the text itself under the key analysis.
Metadata == {"timestamp", "file_path"}
C13_FileIsAuthoritative ==
    [][\A w \in Procs :
          (proc[w].pc = "reconcile" /\ proc'[w].pc = "done_progress")
          => /\ artifact'.doc.kind = "object"
             /\ IF Usable(artifact.doc)
                THEN /\ artifact.doc.obj \subseteq artifact'.doc.obj
                     /\ \A p \in artifact'.doc.obj \ artifact.doc.obj : p[1] \in Metadata
                ELSE IF proc[w].out.kind = "object"
                THEN {p \in proc[w].out.obj : p[1] \notin Metadata} \subseteq artifact'.doc.obj
                ELSE <<"analysis", proc[w].out.txt>> \in artifact'.doc.obj]_vars
\* a legacy file with its own timestamp was kept by a worker whose engine call returned
C13_Witness ==
    \E w \in Procs :
        /\ proc[w].kind = "dfir" /\ proc[w].pc = "done_progress" /\ proc[w].ended = "returned"
        /\ artifact.doc.obj = {<<"analysis", "markdown">>, <<"timestamp", "earlier">>, <<"file_path", FilePath>>}

\* C14: the shape test the analysis worker applies to the file classifies it
\* as Valid iff it is an object with the key EXECUTIVE_SUMMARY, as ValidLegacy
\* iff it is an object without that key and with the key analysis, and as
\* Invalid in every other case.
Classified(d) ==
    IF d.kind = "object" /\ HasKey(d.obj, "EXECUTIVE_SUMMARY") THEN "Valid"
    ELSE IF d.kind = "object" /\ HasKey(d.obj, "analysis") THEN "ValidLegacy"
    ELSE "Invalid"
C14_ValidateClassifies ==
    \A w \in Procs : At(w, "dfir", "reconcile") => validate(artifact.doc) = Classified(artifact.doc)

\* C15: a stored artifact of the legacy shape (an object with the key analysis
\* and no summary key) goes through the analysis stage unchanged in its
\* analysis text and still validates as ValidLegacy; the worker then ends with
\* its four success writes; and a report-start request that finds such an
\* artifact passes the readiness check.
LegacyShape(d) == d.kind = "object" /\ HasKey(d.obj, "analysis") /\ validate(d) = "ValidLegacy"
C15_LegacyRoundTrip ==
    [][/\ \A w \in Procs :
              /\ (proc[w].pc = "reconcile" /\ proc'[w].pc = "done_progress" /\ LegacyShape(artifact.doc))
                 => /\ {p \in artifact'.doc.obj : p[1] = "analysis"} = {p \in artifact.doc.obj : p[1] = "analysis"}
                    /\ validate(artifact'.doc) = "ValidLegacy"
              /\ (proc[w].kind = "dfir" /\ proc[w].pc = "done_running" /\ proc'[w].pc = "exit"
                  /\ LegacyShape(artifact.doc))
                 => LastWrites(w, 4)' = << <<"progress", "DFIR analysis completed successfully">>,
                                          <<"current_step", "DFIR Completed">>,
                                          <<"dfir_analysis_ready", "True">>,
                                          <<"running", "False">> >>
       /\ \A t \in Threads :
              (thread[t].pc = "g_ready" /\ thread'[t].pc # "g_ready" /\ LegacyShape(artifact.doc))
              => thread'[t].pc = "g_manager"]_vars
\* a report worker was started on the legacy artifact an analysis run left
C15_Witness ==
    /\ response.msg = "Report generation started"
    /\ artifact.doc.obj = {<<"analysis", "markdown">>, <<"timestamp", "earlier">>, <<"file_path", FilePath>>}
    /\ artifact.by > 0
    /\ analysis_status_shared.dfir_analysis_ready

\* C16: what the analysis worker writes to the artifact file is an object, and
\* when it falls back on a returned text that is not a JSON object (text that
\* does not parse, or a list, a string, a number) the object is exactly
\* {analysis, timestamp, file_path} with the returned text, as it was, under
\* analysis.
C16_WriteWrapsText ==
    [][\A w \in Procs :
          (proc[w].pc = "reconcile" /\ proc'[w].pc = "done_progress")
          => /\ artifact'.doc.kind = "object"
             /\ (~Usable(artifact.doc) /\ proc[w].out.kind # "object")
                => /\ artifact'.doc.obj = {<<"analysis", proc[w].out.txt>>, <<"timestamp", Now>>,
                                           <<"file_path", FilePath>>}
                   /\ validate(artifact'.doc) = "ValidLegacy"]_vars
\* the number 42, returned as text over a file that does not parse, was wrapped
C16_Witness ==
    \E w \in Procs :
        /\ proc[w].pc = "done_progress" /\ proc[w].out = NonObject("42") /\ proc[w].calls = 1
        /\ artifact = [doc |-> Object({<<"analysis", "42">>, <<"timestamp", Now>>, <<"file_path", FilePath>>}),
                       by |-> w]

\* C17: in the combined run, Runner.run of the reporting agent is started only
\* from a state in which step 1 has returned; once step 1 has timed out or
\* raised, the run makes no call of the reporting agent and writes no report
\* file (neither dfir_report.html nor the per-title copy).
Step1Failed(w) ==
    /\ proc[w].kind = "workflow"
    /\ proc[w].ended \in {"timeout", "raised"}
    /\ ~InLog(w, <<"Runner.run", "reporting_agent">>)
C17_ReportOnlyAfterAnalysis ==
    [][\A w \in Procs :
          /\ (proc[w].kind = "workflow" /\ ~InLog(w, <<"Runner.run", "reporting_agent">>)
              /\ InLog(w, <<"Runner.run", "reporting_agent">>)')
             => (proc[w].pc = "step2_tool" /\ proc[w].ended = "returned"
                 /\ InLog(w, <<"Runner.run", "dfir_agent">>))
          /\ Step1Failed(w)
             => (Step1Failed(w)' /\ report_html' = report_html /\ report_copy' = report_copy)]_vars
\* step 1 raised and the run has ended in the error state, with no report written
C17_Witness ==
    \E w \in Procs :
        /\ Step1Failed(w) /\ proc[w].pc = "exit" /\ proc[w].ended = "raised"
        /\ analysis_status_shared.current_step = "Error"
        /\ report_copy.doc = Missing /\ report_html.by = 0

\* C18: no step of a /generate-report request and no step of a report worker,
\* on any of its paths, changes dfir_reports/dfir_analysis.json: whenever the
\* file changes, the step is an analysis worker's: the agent's write during
\* Runner.run or the worker's own rewrite after it.
C18_ReportLeavesArtifact ==
    [][/\ \A w \in Procs :
             (proc[w].kind = "report" /\ proc'[w] # proc[w]) => artifact' = artifact
       /\ \A t \in Threads :
             (thread[t].op = "report" /\ thread'[t] # thread[t]) => artifact' = artifact
       /\ artifact' # artifact
          => \E v \in Procs : /\ proc[v].kind = "dfir" /\ proc[v].pc \in {"tool", "reconcile"}
                              /\ proc'[v] # proc[v]]_vars
\* a report worker is through its success writes, and the artifact is still the
\* file that was there when the report was requested
C18_Witness ==
    \E w \in Procs :
        /\ proc[w].kind = "report" /\ proc[w].pc = "exit" /\ proc[w].ended = "returned"
        /\ report_copy.by = w /\ report_html.by = w
        /\ artifact.doc = ValidDoc /\ artifact.by = 0

\* C19: a status snapshot whose current_step is 'Completed', taken while only
\* workers wrote to the record (no start request was being served during the
\* read), has report_path set, and the path names
\* dfir_report_<slug of the title>.html, a file that exists and was written by
\* a report worker.
PathOfCopy == <<"dfir_reports/">> \o report_copy.name
C19_CompletedHasReportPath ==
    (observed.taken /\ observed.calm /\ observed.status.current_step = "Completed")
    => /\ observed.status.report_path # <<>>
       /\ observed.status.report_path = PathOfCopy
       /\ \E title \in Titles : report_copy.name = <<"dfir_report_">> \o slug(title) \o <<".html">>
       /\ report_copy.doc # Missing
       /\ report_copy.by \in Procs /\ proc[report_copy.by].kind = "report"
\* the read overlapped the worker's last writes: 'Completed' was read while the
\* worker had not yet written running = False
C19_Witness ==
    /\ observed.taken /\ observed.calm /\ observed.status.current_step = "Completed"
    /\ observed.status.running
    /\ observed.status.report_path = PathOfCopy
    /\ ~observed.quiet

\* C20: when the reporting agent's tool reads dfir_analysis.json and renders
\* it, no analysis worker is between its agent's write of that file and its
\* own rewrite of it (app.py 132-197).
Rewriting(v) == proc[v].alive /\ proc[v].kind = "dfir" /\ proc[v].pc \in {"engine", "reconcile"}
C20_ReportReadsFinishedArtifact ==
    [][\A w \in Procs :
          (At(w, "report", "tool") /\ report_html' # report_html /\ report_html'.by = w)
          => ~\E v \in Procs : Rewriting(v) /\ artifact.by = v]_vars

\* C21: every worker that was started comes to its last statement having
\* written running = False and either a terminal current_step ('DFIR Completed',
\* 'Completed', 'Error') or an entry of errors, whether its engine call
\* returned, raised or ran into the deadline.
TerminalSteps == {"DFIR Completed", "Completed", "Error"}
Recorded(w) ==
    /\ proc[w].pc = "exit"
    /\ InLog(w, <<"running", "False">>)
    /\ \/ \E s \in TerminalSteps : InLog(w, <<"current_step", s>>)
       \/ \E i \in 1..Len(proc[w].log) : proc[w].log[i][1] = "errors"
C21_StageTerminates == \A w \in Procs : proc[w].alive ~> Recorded(w)
\* an analysis worker whose engine call ran into the deadline has recorded the failure
C21_Witness ==
    \E w \in Procs : Recorded(w) /\ proc[w].kind = "dfir" /\ proc[w].ended = "timeout"
                     /\ ~analysis_status_shared.running

\* C22: a worker process is started only by a start request that is answered
\* 200, it starts its engine call (Runner.run) at most once, and once that call
\* has timed out or raised the worker never comes back to it.
Started(r) == r.code = 200 /\ r.msg \in {"DFIR analysis started", "Report generation started"}
C22_NoRetry ==
    [][\A w \in Procs :
          /\ (~proc[w].alive /\ proc'[w].alive) => Started(response')
          /\ (proc[w].alive /\ proc'[w].calls # proc[w].calls /\ proc'[w].alive)
             => (proc[w].calls = 0 /\ proc'[w].calls = 1 /\ proc[w].ended = "")
          /\ (proc[w].alive /\ proc[w].ended \in {"timeout", "raised"})
             => proc'[w].pc \notin {"tool", "engine"}]_vars
\* a report worker whose only engine call timed out is at its last statement
C22_Witness ==
    \E w \in Procs : /\ proc[w].kind = "report" /\ proc[w].pc = "exit" /\ proc[w].ended = "timeout"
                     /\ proc[w].calls = 1 /\ InLog(w, <<"current_step", "Error">>)

\* C23: a worker whose mkdir failed ends without an engine call, having
\* appended an error, written running = False and reported the stage as failed
\* (current_step 'Error', as every other failure path does); a worker whose
\* chmod failed goes on with its run.
C23_DirectorySetup ==
    [][\A w \in Procs :
          /\ (proc[w].alive /\ proc[w].pc = "dir_running" /\ proc'[w].pc = "exit")
             => /\ proc'[w].calls = 0
                /\ InLog(w, <<"errors", "Error creating directories">>)'
                /\ InLog(w, <<"running", "False">>)'
                /\ InLog(w, <<"current_step", "Error">>)'
          /\ (proc[w].alive /\ proc[w].pc = "dirs" /\ proc'[w].pc \notin {"dirs", "running"})
             => (proc'[w].pc = "dir_errors" \/ ~proc'[w].alive)]_vars

\* C24: while the artifact is the file that was there from the start (nothing
\* wrote it), a report run that comes after an earlier report run writes to
\* dfir_report.html and to its per-run copy exactly what the earlier run wrote.
Unwritten(file) == file.by = 0
C24_ReportRerunIdentical ==
    [][\A w \in Procs :
          (proc[w].alive /\ proc[w].kind = "report" /\ Unwritten(artifact) /\ Unwritten(artifact'))
          => /\ (report_html' # report_html /\ ~Unwritten(report_html))
                => report_html'.doc = report_html.doc
             /\ (proc[w].pc = "done_path" /\ proc'[w].pc = "done_progress" /\ report_copy.doc # Missing)
                => report_copy'.doc = report_copy.doc]_vars

\* C25: for an artifact whose STATISTICS_CARDS entries all are objects, what the
\* tool call leaves in dfir_report.html has no token of the form {{...}} and
\* has exactly one stat-card element per entry of the list.
Braced(tok) == tok \in {Ph(k) : k \in {StringKeys[i] : i \in 1..Len(StringKeys)}
                                     \cup {ListKeys[i] : i \in 1..Len(ListKeys)} \cup {"7*7"}}
CardAt(html) == {i \in 1..Len(html) : html[i] = "<div STATISTICS_CARDS>"}
C25_RenderResolvesAll ==
    \A w \in Procs :
        (At(w, "report", "engine") /\ Renderable(artifact.doc.obj))
        => LET cards == Field(artifact.doc.obj, "STATISTICS_CARDS")
           IN  /\ report_html.by = w
               /\ report_html.doc.kind = "html"
               /\ \A i \in 1..Len(report_html.doc.txt) : ~Braced(report_html.doc.txt[i])
               /\ Cardinality(CardAt(report_html.doc.txt)) = Len(cards)

\* C26: when an analysis worker has reconciled the file with its engine's
\* return value and goes on to its success writes, the content of
\* dfir_analysis.json comes from that worker's run: from its agent's write or
\* from its own write of the returned text, never from before the run.
C26_ArtifactIsOfThisRun ==
    [][\A w \in Procs :
          (proc[w].alive /\ proc[w].kind = "dfir" /\ proc[w].pc = "reconcile"
           /\ proc'[w].pc = "done_progress" /\ AliveOf("dfir") = {w})
          => artifact'.by = w]_vars

\* C27: a write made by the failure path of one stage's worker (directory,
\* missing artifact, timeout or exception handler) changes neither running,
\* current_step, errors nor warnings of the record while a worker of the other
\* stage is alive, is at work and has itself met no failure.
FailurePcs == {"dir_errors", "dir_progress", "dir_running",
               "nf_progress", "nf_step", "nf_running",
               "to_errors", "to_warnings", "to_progress", "to_step", "to_running",
               "exc_errors", "exc_progress", "exc_step", "exc_running", "exc_warnings"}
Sound(u) == proc[u].alive /\ proc[u].ended \in {"", "returned"}
            /\ proc[u].pc \notin FailurePcs \cup {"dirs", "exit"}
C27_FailureStaysInItsStage ==
    [][\A u, v \in Procs :
          (/\ Sound(u) /\ proc[v].alive /\ proc[v].kind # proc[u].kind
           /\ proc[v].pc \in FailurePcs /\ proc'[v].pc # proc[v].pc)
          => /\ analysis_status_shared'.running = analysis_status_shared.running
             /\ analysis_status_shared'.current_step = analysis_status_shared.current_step
             /\ analysis_status_shared'.errors = analysis_status_shared.errors
             /\ analysis_status_shared'.warnings = analysis_status_shared.warnings]_vars

\* C28: a worker that has gone through its exception handler has appended
\* exactly one error (the one carrying the message), has then written
\* current_step 'Error' and running False and never running True again, and
\* has appended the timeout-wording warning if the message holds 'timeout' or
\* 'time', else the token/context warning if it holds 'token' or 'context',
\* else no warning: one warning at most, and the same writes for every message.
Appended(w, k) == {i \in 1..Len(proc[w].log) : proc[w].log[i][1] = k /\ proc[w].log[i][2] # "[]"}
Handled(w) == proc[w].alive /\ proc[w].ended = "raised" /\ proc[w].pc = "exit"
TimeWorded == {"request timed out", "timeout waiting for token"}
TokenWorded == {"context length exceeded", "timeout waiting for token"}
C28_KeywordsOnlyAddWarning ==
    \A w \in Procs :
        Handled(w) =>
            LET log == proc[w].log
                errs == Appended(w, "errors")
                warns == Appended(w, "warnings")
                at == CHOOSE i \in errs : TRUE
            IN  /\ Cardinality(errs) = 1
                /\ log[at][2] = "Error during " \o Stage(w) \o ": " \o proc[w].exc
                /\ \E i, j \in at + 1..Len(log) :
                       /\ i < j
                       /\ log[i] = <<"current_step", "Error">>
                       /\ log[j] = <<"running", "False">>
                /\ \A i \in at..Len(log) : log[i] # <<"running", "True">>
                /\ Cardinality(warns) <= 1
                /\ IF proc[w].exc \in TimeWorded
                   THEN \E i \in warns : log[i][2] = "Timeout detected during " \o Stage(w) /\ i > at
                   ELSE IF proc[w].exc \in TokenWorded
                   THEN \E i \in warns : log[i][2] = "Context/token limit exceeded." /\ i > at
                   ELSE warns = {}
C28_Witness ==
    \E w \in Procs : /\ Handled(w) /\ proc[w].exc = "timeout waiting for token"
                     /\ Cardinality(Appended(w, "warnings")) = 1
                     /\ ~analysis_status_shared.running

\* C29: the artifact the analysis worker leaves when it goes on to its success
\* writes has the keys timestamp and file_path; and when the file it found was
\* usable, a timestamp or file_path the file already had keeps its value, and
\* the pairs under every other key are the same before and after.
Under(o, ks) == {p \in o : p[1] \in ks}
C29_MetadataAddedIfAbsent ==
    [][\A w \in Procs :
          (proc[w].pc = "reconcile" /\ proc'[w].pc = "done_progress")
          => /\ \A k \in Metadata : HasKey(artifact'.doc.obj, k)
             /\ Usable(artifact.doc)
                => /\ \A k \in Metadata :
                          HasKey(artifact.doc.obj, k)
                          => Under(artifact'.doc.obj, {k}) = Under(artifact.doc.obj, {k})
                   /\ artifact'.doc.obj \ Under(artifact'.doc.obj, Metadata)
                      = artifact.doc.obj \ Under(artifact.doc.obj, Metadata)]_vars
\* a summary file that came with its own timestamp went through and got file_path only
C29_Witness ==
    \E w \in Procs :
        /\ proc[w].kind = "dfir" /\ proc[w].pc = "done_progress" /\ proc[w].ended = "returned"
        /\ artifact.doc.obj = {<<"EXECUTIVE_SUMMARY", "summary">>, <<"timestamp", "earlier">>,
                               <<"file_path", FilePath>>}

\* C30: the coordinator is never left, with no request being served, in a
\* state from which no start request can be accepted any more: the status
\* record, once it exists, has the keys errors and warnings that the reset of
\* both start handlers writes through (without them every later start request
\* of either stage is answered 500, and nothing adds them back).
Resettable == analysis_status_shared.exists => {"errors", "warnings"} \subseteq analysis_status_shared.keys
C30_StartNeverRejectedForever == Busy = {} => Resettable

\* C31: the name under which the report worker writes the per-run copy has no
\* path separator in it, and so no parent-directory component either: the
\* copy is a file directly inside dfir_reports/, whatever the title.
Separators(name) == {i \in 1..Len(name) : name[i] = "/"}
ParentAt(name) ==
    {i \in Separators(name) :
        /\ i + 3 <= Len(name)
        /\ name[i + 1] = "." /\ name[i + 2] = "." /\ name[i + 3] = "/"}
C31_SlugIsOneFileName ==
    report_copy.name # <<>> => (Separators(report_copy.name) = {} /\ ParentAt(report_copy.name) = {})

\* C32: whenever the status record reads current_step 'Error' its errors list
\* is not empty (so that every status read, which copies the fields of the
\* record, shows an error next to the step 'Error').
C32_ErrorStepHasError ==
    (analysis_status_shared.exists /\ analysis_status_shared.current_step = "Error")
    => analysis_status_shared.errors # <<>>

\* C33: whenever the status record holds dfir_analysis_ready = True, the file
\* dfir_analysis.json exists and validates as Valid or ValidLegacy.
C33_ReadyMeansArtifact ==
    (analysis_status_shared.exists /\ analysis_status_shared.dfir_analysis_ready)
    => Usable(artifact.doc)

\* C34: the HTML a report worker takes over from dfir_report.html when its
\* engine call returns was written to that file by the tool call of this same
\* worker (never left there from before the run), and the per-run copy the
\* worker then writes is that text.
C34_CopyIsOfThisRun ==
    [][\A w \in Procs :
          /\ (At(w, "report", "engine") /\ proc'[w].pc = "done_path" /\ proc'[w].out.kind = "html")
             => report_html.by = w
          /\ (At(w, "report", "done_path") /\ proc'[w].pc = "done_progress")
             => report_copy'.doc = proc[w].out]_vars

====
